---- MODULE Spec2Model ----
(***************************************************************************)
(* The recipe engine of starfish: starfish/recipe/recipe.py (Recipe,       *)
(* OrderedSequence, Execution) and starfish/recipe/runnable.py (Runnable). *)
(*                                                                         *)
(* A Runnable is identified by its position in the OrderedSequence (its    *)
(* identity is unique per construction and compute() appends every         *)
(* Runnable it constructs).  Python dicts are functions whose DOMAIN is    *)
(* the set of keys; Python lists are sequences; list indices of the        *)
(* source (0-based) are shifted by one where a sequence is indexed.        *)
(***************************************************************************)
EXTENDS Integers, Sequences, FiniteSets, TLC

\* Bounds of the model: tasks per recipe script, output destinations.
MaxTasks == 3
MaxOutputs == 2

VARIABLES
    pc,          \* "script" (Recipe.__init__ is executing the script),
                 \* "failed" (Recipe.__init__ raised), "recipe" (a Recipe
                 \* exists), "exec" (an Execution of it exists)
    fileValue,   \* the content decoded from file_inputs[0]
    sequence,    \* OrderedSequence._sequence / Recipe._runnable_order
    outputs,     \* Recipe._outputs (ordered_outputs)
    output_paths,\* Recipe._output_paths
    file_outputs,\* the mapping the script left in file_outputs
    parseError,  \* the exception Recipe.__init__ raised, "" when none
    lastCompute, \* history: the last compute(...) call and what it did
    exec,        \* the fields of the current Execution
    ran,         \* history: the runnables whose run() the Execution called
    lastCall,    \* history: outcome of the last call on the Execution
    disk,        \* the files written by save: output path -> value
    exec2,       \* a second Execution of the same Recipe, NoExecution when none
    decoded,     \* history: the decodings of file references, in order
    pool,        \* the reference-counting scheduler, NoPool when none
    firstRun     \* history: log of the first Execution that saved

vars == <<pc, fileValue, sequence, outputs, output_paths, file_outputs,
          parseError, lastCompute, exec, ran, lastCall, disk, firstRun,
          exec2, decoded, pool>>

----------------------------------------------------------------------------
(* Generic helpers for Python containers. *)

Range(s) == {s[i] : i \in DOMAIN s}

\* the last element in place of the first
MinLast(S) == CHOOSE x \in S : \A y \in S : x >= y

Min(S) == CHOOSE x \in S : \A y \in S : x <= y

EmptyDict == [k \in {} |-> 0]

\* d[k] = v
DictSet(d, k, v) == [x \in DOMAIN d \cup {k} |-> IF x = k THEN v ELSE d[x]]

\* del d[k] for every k of ks that is a key
DictDel(d, ks) == [x \in DOMAIN d \ ks |-> d[x]]

\* zip(set(a), b): the distinct elements of a, in the order of their first
\* occurrence, paired with b
zip_distinct(a, b) ==
    LET first == {i \in DOMAIN a : \A j \in 1..(i - 1) : a[j] # a[i]}
        k == Cardinality(first)
        at == CHOOSE f \in [1..k -> first] :
                  \A i, j \in 1..k : i < j => f[i] < f[j]
        n == IF k <= Len(b) THEN k ELSE Len(b)
    IN  [i \in 1..n |-> <<a[at[i]], b[i]>>]

\* zip(a, b): pairs up to the shorter length
zip(a, b) ==
    LET n == IF Len(a) <= Len(b) THEN Len(a) ELSE Len(b)
    IN  [i \in 1..n |-> <<a[i], b[i]>>]

----------------------------------------------------------------------------
(* The algorithm registry and the file provider: collaborators of the     *)
(* engine.  Two filter algorithms, as in the recipe tests: Multiply has a  *)
(* run(self, stack) and a constructor option factor, Add has a             *)
(* run(self, stack, other).                                                *)

FileValues == {5}

RunArity(alg) == IF alg = "Multiply" THEN 1 ELSE 2

\* algorithm_instance.run(*inputs) raises (TypeError: missing argument)
AlgorithmRaises(r, args) == Len(args) # RunArity(r.alg)

\* algorithm_instance.run(*inputs)
AlgorithmRun(r, args) ==
    IF r.alg = "Multiply" THEN args[1] * r.factor ELSE args[1] + args[2]

\* TypedFileProvider.load()
load(fv) == fv

----------------------------------------------------------------------------
(* Runnable *)

FileInput == [kind |-> "file", ref |-> 0]
TaskInput(t) == [kind |-> "runnable", ref |-> t]

\* Runnable.__init__: the formatted inputs keep Runnables as they are and
\* bind FileProviders as typed providers, decoded only by run().
Runnable(alg, factor, inputs) ==
    [alg |-> alg, factor |-> factor, inputs |-> inputs]

\* a raw value passed to compute()
RawValue(v) == [kind |-> "raw", ref |-> v]

\* the parameters of the algorithm constructors and their annotations:
\* Multiply.__init__(self, factor: Number, name: str = ""), Add.__init__(self)
ConstructorParams(alg) == IF alg = "Multiply" THEN {"factor", "name"} ELSE {}

\* the annotation of a constructor parameter has a loader in the type
\* registry (TypedFileProvider(provider, annotation) raises TypeError
\* otherwise); Number has one, str has none
ConstructorLoadable(alg, name) == name = "factor"

\* the annotation of the i-th run parameter has a loader:
\* Multiply.run(self, stack: ImageStack),
\* Add.run(self, stack: ImageStack, other), other not annotated
RunLoadable(alg, i) == i = 1

\* algorithm_cls(**options) raises: Multiply requires factor and accepts
\* name, Add accepts no option
ConstructorRaises(alg, options) ==
    LET names == {options[i][1] : i \in DOMAIN options}
    IN  IF alg = "Multiply"
        THEN "factor" \notin names \/ ~(names \subseteq {"factor", "name"})
        ELSE names # {}

\* the constructor's exception reaches the script as it was raised
construct_unwrapped(alg, options) ==
    IF ConstructorRaises(alg, options) THEN "TypeError" ELSE ""

\* self._algorithm_cls(**formatted_algorithm_options) inside
\* try/except Exception: the error Runnable.__init__ raises, "" when none
construct(alg, options) ==
    IF ConstructorRaises(alg, options) THEN "ConstructorError" ELSE ""

RECURSIVE format_options_keep(_, _, _, _, _)
\* the loop over the named options, passing an undeclared file reference
\* on to the constructor after the warning
format_options_keep(alg, options, i, acc, fv) ==
    IF i > Len(options) THEN acc
    ELSE LET name == options[i][1]
             value == options[i][2]
         IN  IF value.kind = "file" /\ name \in ConstructorParams(alg)
             THEN IF ~ConstructorLoadable(alg, name)
                  THEN [acc EXCEPT !.error = "TypeInferenceError"]
                  ELSE format_options_keep(alg, options, i + 1,
                           [acc EXCEPT !.formatted =
                                           Append(@, <<name, RawValue(load(fv))>>),
                                       !.loaded = @ \cup {name}],
                           fv)
             ELSE format_options_keep(alg, options, i + 1,
                      [acc EXCEPT !.formatted = Append(@, <<name, value>>),
                                  !.warnings =
                                      IF value.kind = "file"
                                      THEN @ \cup {name} ELSE @],
                      fv)

RECURSIVE format_options(_, _, _, _, _)
\* the loop of Runnable.__init__ over the named options, from the i-th on;
\* acc holds formatted_algorithm_options, the warnings emitted and the
\* options whose file reference was decoded (provider.load()); fv is the
\* content of the file
format_options(alg, options, i, acc, fv) ==
    IF i > Len(options) THEN acc
    ELSE LET name == options[i][1]
             value == options[i][2]
         IN  IF value.kind = "file"
             THEN IF name \notin ConstructorParams(alg)
                  THEN format_options(alg, options, i + 1,
                           [acc EXCEPT !.warnings = @ \cup {name}], fv)
                  ELSE IF ~ConstructorLoadable(alg, name)
                       THEN [acc EXCEPT !.error = "TypeInferenceError"]
                       ELSE format_options(alg, options, i + 1,
                                [acc EXCEPT !.formatted =
                                     Append(@, <<name, RawValue(load(fv))>>),
                                            !.loaded = @ \cup {name}],
                                fv)
             ELSE format_options(alg, options, i + 1,
                      [acc EXCEPT !.formatted = Append(@, <<name, value>>)], fv)

\* the positional file references are bound to their types only when the
\* Runnable is run
bind_inputs_lazy(alg, inputs) == ""

\* the loop of Runnable.__init__ over the positional inputs: each file
\* reference is bound to the annotation of its run parameter,
\* TypedFileProvider(_input, annotation) inside try/except TypeError; the
\* error raised, "" when none
bind_inputs(alg, inputs) ==
    IF \E i \in DOMAIN inputs : inputs[i].kind = "file" /\ ~RunLoadable(alg, i)
    THEN "TypeInferenceError"
    ELSE ""

\* the positional file references are decoded when the Runnable is built
init_input_loads_eager(alg, inputs) ==
    {i \in DOMAIN inputs : inputs[i].kind = "file"}

\* the positions of the positional inputs that Runnable.__init__ decodes:
\* it appends the TypedFileProvider itself and calls no load()
init_input_loads(alg, inputs) == {}

\* the value the constructed algorithm multiplies by
factor_of(alg, formatted) ==
    IF alg = "Multiply"
    THEN (CHOOSE i \in DOMAIN formatted : formatted[i][1] = "factor")
    ELSE 0

\* the accumulator of format_options before the first option
NoOptions == [error |-> "", warnings |-> {}, formatted |-> <<>>, loaded |-> {}]

\* Runnable.__init__(component, algorithm, *inputs, **options): the error
\* it raises ("" when none), the warnings it emits, the options the
\* algorithm constructor received, the options and the positional inputs
\* it decoded, and the Runnable
RunnableInit(alg, inputs, options, fv) ==
    LET o == format_options(alg, options, 1, NoOptions, fv)
        failed(error, received) ==
            [error |-> error, warnings |-> o.warnings, received |-> received,
             loaded |-> o.loaded, input_loads |-> {},
             runnable |-> Runnable(alg, 0, <<>>)]
    IN  IF o.error # "" THEN failed(o.error, <<>>)
        ELSE IF construct(alg, o.formatted) # ""
        THEN failed(construct(alg, o.formatted), o.formatted)
        ELSE IF Len(inputs) > RunArity(alg)
        THEN failed("AssertionError", o.formatted)
        ELSE IF bind_inputs(alg, inputs) # ""
        THEN failed(bind_inputs(alg, inputs), o.formatted)
        ELSE [error |-> "", warnings |-> o.warnings, received |-> o.formatted,
              loaded |-> o.loaded,
              input_loads |-> init_input_loads(alg, inputs),
              runnable |->
                  Runnable(alg,
                           IF alg = "Multiply"
                           THEN o.formatted[factor_of(alg, o.formatted)][2].ref
                           ELSE 1,
                           inputs)]

\* Runnable.runnable_dependencies
runnable_dependencies(r) ==
    {r.inputs[i].ref : i \in {j \in DOMAIN r.inputs : r.inputs[j].kind = "runnable"}}

\* the positions of the positional inputs that Runnable.run decodes with
\* _input.load(): the file references it meets before a Runnable whose
\* result is missing
run_loads(r, previous_results) ==
    {i \in DOMAIN r.inputs :
        /\ r.inputs[i].kind = "file"
        /\ \A j \in 1..(i - 1) :
              r.inputs[j].kind = "runnable"
                  => r.inputs[j].ref \in DOMAIN previous_results}

\* run that decodes the file input for every positional input, Runnables
\* included, instead of reading their cached results
run_no_lookup(r, previous_results, fv) ==
    LET args == [i \in DOMAIN r.inputs |-> load(fv)]
    IN  IF AlgorithmRaises(r, args)
        THEN [error |-> "ExecutionError", value |-> 0]
        ELSE [error |-> "", value |-> AlgorithmRun(r, args)]

\* run that catches the exception of the algorithm and returns no result
run_swallow(r, previous_results, fv) ==
    LET missing == \E i \in DOMAIN r.inputs :
                      /\ r.inputs[i].kind = "runnable"
                      /\ r.inputs[i].ref \notin DOMAIN previous_results
        args == [i \in DOMAIN r.inputs |->
                    IF r.inputs[i].kind = "runnable"
                    THEN previous_results[r.inputs[i].ref]
                    ELSE load(fv)]
    IN  IF missing THEN [error |-> "KeyError", value |-> 0]
        ELSE IF AlgorithmRaises(r, args)
             THEN [error |-> "", value |-> 0]
             ELSE [error |-> "", value |-> AlgorithmRun(r, args)]

\* Runnable.run(previous_results)
run(r, previous_results, fv) ==
    LET missing == \E i \in DOMAIN r.inputs :
                      /\ r.inputs[i].kind = "runnable"
                      /\ r.inputs[i].ref \notin DOMAIN previous_results
        args == [i \in DOMAIN r.inputs |->
                    IF r.inputs[i].kind = "runnable"
                    THEN previous_results[r.inputs[i].ref]
                    ELSE load(fv)]
    IN  IF missing THEN [error |-> "KeyError", value |-> 0]
        ELSE IF AlgorithmRaises(r, args)
             THEN [error |-> "ExecutionError", value |-> 0]
             ELSE [error |-> "", value |-> AlgorithmRun(r, args)]

----------------------------------------------------------------------------
(* Execution *)

RECURSIVE build_graph(_, _, _)
RECURSIVE build_graph_dependencies(_, _, _, _)

\* build_graph without the recursive call: the dependencies are indexed but
\* not visited
build_graph_shallow(seq, runnable, g) ==
    IF runnable \in g.needed THEN g
    ELSE LET deps == runnable_dependencies(seq[runnable])
         IN  [needed |-> g.needed \cup {runnable},
              dependents |->
                  [d \in DOMAIN g.dependents \cup deps |->
                      (IF d \in DOMAIN g.dependents THEN g.dependents[d] ELSE {})
                      \cup (IF d \in deps THEN {runnable} ELSE {})]]

\* Execution.build_graph(runnable, needed_runnables, runnable_dependents);
\* g holds the two containers the source mutates in place.
build_graph(seq, runnable, g) ==
    IF runnable \in g.needed THEN g
    ELSE build_graph_dependencies(
             seq, runnable, runnable_dependencies(seq[runnable]),
             [g EXCEPT !.needed = @ \cup {runnable}])

\* the for loop of build_graph over runnable.runnable_dependencies
build_graph_dependencies(seq, runnable, deps, g) ==
    IF deps = {} THEN g
    ELSE LET dependency == CHOOSE d \in deps : TRUE
             old == IF dependency \in DOMAIN g.dependents
                    THEN g.dependents[dependency] ELSE {}
             g1 == [g EXCEPT !.dependents =
                        DictSet(@, dependency, old \cup {runnable})]
         IN  build_graph_dependencies(
                 seq, runnable, deps \ {dependency},
                 build_graph(seq, dependency, g1))

RECURSIVE build_graph_outputs(_, _, _, _)
\* the loop of Execution.__init__ over self._outputs
build_graph_outputs(seq, outs, i, g) ==
    IF i > Len(outs) THEN g
    ELSE build_graph_outputs(seq, outs, i + 1, build_graph(seq, outs[i], g))

\* an Execution whose index of dependents holds every Runnable of the
\* sequence that takes the dependency as input, needed or not
Execution_index_all(seq, outs) ==
    LET g == build_graph_outputs(seq, outs, 1,
                                 [needed |-> {}, dependents |-> EmptyDict])
        consumers(d) == {t \in DOMAIN seq : d \in runnable_dependencies(seq[t])}
    IN  [cursor     |-> 0,
         needed     |-> g.needed,
         dependents |-> [d \in {x \in DOMAIN seq : consumers(x) # {}} |->
                            consumers(d)],
         completed  |-> {},
         results    |-> EmptyDict,
         incomplete |-> Range(outs)]

\* an Execution that waits for every needed Runnable, not for the outputs
Execution_all_needed(seq, outs) ==
    LET g == build_graph_outputs(seq, outs, 1,
                                 [needed |-> {}, dependents |-> EmptyDict])
    IN  [cursor     |-> 0,
         needed     |-> g.needed,
         dependents |-> g.dependents,
         completed  |-> {},
         results    |-> EmptyDict,
         incomplete |-> g.needed]

\* Execution.__init__
Execution(seq, outs) ==
    LET g == build_graph_outputs(seq, outs, 1,
                                 [needed |-> {}, dependents |-> EmptyDict])
    IN  [cursor     |-> 0,
         needed     |-> g.needed,
         dependents |-> g.dependents,
         completed  |-> {},
         results    |-> EmptyDict,
         incomplete |-> Range(outs)]

NoExecution ==
    [cursor |-> 0, needed |-> {}, dependents |-> EmptyDict, completed |-> {},
     results |-> EmptyDict, incomplete |-> {}]

\* Execution.complete
complete(e) == Cardinality(e.incomplete) = 0

\* the eviction test made before the candidate counts as completed
evictable_stale(seq, outs, e, candidate) ==
    {dependency \in runnable_dependencies(seq[candidate]) :
        /\ dependency \notin Range(outs)
        /\ \A dependent \in e.dependents[dependency] :
               dependent \in e.completed \ {candidate}}

\* the eviction test satisfied by one completed dependent
evictable_any(seq, outs, e, candidate) ==
    {dependency \in runnable_dependencies(seq[candidate]) :
        /\ dependency \notin Range(outs)
        /\ \E dependent \in e.dependents[dependency] :
               dependent \in e.completed}

\* the eviction test without the check for designated outputs
evictable_outputs(seq, outs, e, candidate) ==
    {dependency \in runnable_dependencies(seq[candidate]) :
        \A dependent \in e.dependents[dependency] : dependent \in e.completed}

\* the dependencies whose result the eviction loop of run_one_tick deletes
\* once candidate is completed
evictable(seq, outs, e, candidate) ==
    {dependency \in runnable_dependencies(seq[candidate]) :
        /\ dependency \notin Range(outs)
        /\ \A dependent \in e.dependents[dependency] :
               dependent \in e.completed}

\* run_one_tick that books the candidate as completed before it runs it
run_one_tick_books_first(seq, outs, e, fv) ==
    LET rest == {i \in (e.cursor + 1)..Len(seq) : i \in e.needed}
    IN  IF rest = {}
        THEN [exec |-> [e EXCEPT !.cursor = Len(seq)],
              error |-> "StopIteration", task |-> 0, evicted |-> {}]
        ELSE
        LET candidate == Min(rest)
            e1 == [e EXCEPT !.cursor = candidate,
                            !.completed = @ \cup {candidate},
                            !.incomplete = @ \ {candidate}]
            result == run(seq[candidate], e.results, fv)
        IN  IF result.error # ""
            THEN [exec |-> e1, error |-> result.error, task |-> candidate,
                  evicted |-> {}]
            ELSE
            LET e2 == [e1 EXCEPT
                          !.results = DictSet(@, candidate, result.value)]
                drop == evictable(seq, outs, e2, candidate)
            IN  [exec |-> [e2 EXCEPT !.results = DictDel(@, drop)],
                 error |-> IF drop \subseteq DOMAIN e2.results
                           THEN "" ELSE "KeyError",
                 task |-> candidate,
                 evicted |-> drop \cap DOMAIN e2.results]

\* Execution.run_one_tick
run_one_tick(seq, outs, e, fv) ==
    LET rest == {i \in (e.cursor + 1)..Len(seq) : i \in e.needed}
    IN  IF rest = {}
        THEN [exec |-> [e EXCEPT !.cursor = Len(seq)],
              error |-> "StopIteration", task |-> 0, evicted |-> {}]
        ELSE
        LET candidate == Min(rest)
            e1 == [e EXCEPT !.cursor = candidate]
            result == run(seq[candidate], e.results, fv)
        IN  IF result.error # ""
            THEN [exec |-> e1, error |-> result.error, task |-> candidate,
                  evicted |-> {}]
            ELSE
            LET e2 == [e1 EXCEPT
                          !.completed = @ \cup {candidate},
                          !.results = DictSet(@, candidate, result.value),
                          !.incomplete = @ \ {candidate}]
                unindexed == {d \in runnable_dependencies(seq[candidate]) :
                                 d \notin Range(outs) /\ d \notin DOMAIN e2.dependents}
            IN  IF unindexed # {}
                THEN [exec |-> e2, error |-> "KeyError", task |-> candidate,
                      evicted |-> {}]
                ELSE
                LET drop == evictable(seq, outs, e2, candidate)
                IN  [exec |-> [e2 EXCEPT !.results = DictDel(@, drop)],
                     error |-> IF drop \subseteq DOMAIN e2.results
                               THEN "" ELSE "KeyError",
                     task |-> candidate,
                     evicted |-> drop \cap DOMAIN e2.results]

RECURSIVE save_pairs(_, _, _, _, _)
\* the loop of Execution.save over zip(outputs, output_paths)
save_pairs(pairs, i, e, d, log) ==
    IF i > Len(pairs) THEN [error |-> "", disk |-> d, log |-> log]
    ELSE IF pairs[i][1] \notin DOMAIN e.results
         THEN [error |-> "KeyError", disk |-> d, log |-> log]
         ELSE LET result == e.results[pairs[i][1]]
              IN  save_pairs(pairs, i + 1, e,
                             DictSet(d, pairs[i][2], result),
                             Append(log, <<pairs[i][2], result>>))

\* save without its precondition, as when assertions are compiled out
save_unchecked(e, outs, paths, d) ==
    save_pairs(zip(outs, paths), 1, e, d, <<>>)

\* Execution.save
save(e, outs, paths, d) ==
    IF ~complete(e)
    THEN [error |-> "AssertionError", disk |-> d, log |-> <<>>]
    ELSE save_pairs(zip(outs, paths), 1, e, d, <<>>)

RECURSIVE run_and_save_tick_first(_, _, _, _, _, _, _)
\* run_and_save as a loop that ticks before it tests complete
run_and_save_tick_first(seq, outs, paths, e, fv, d, r) ==
    LET t == run_one_tick(seq, outs, e, fv)
        r1 == IF t.task = 0 THEN r ELSE Append(r, t.task)
    IN  IF t.error # ""
        THEN [exec |-> t.exec, error |-> t.error, disk |-> d,
              log |-> <<>>, ran |-> r1, task |-> t.task,
              evicted |-> t.evicted]
        ELSE IF complete(t.exec)
        THEN LET s == save(t.exec, outs, paths, d)
             IN  [exec |-> t.exec, error |-> s.error, disk |-> s.disk,
                  log |-> s.log, ran |-> r1, task |-> 0, evicted |-> {}]
        ELSE run_and_save_tick_first(seq, outs, paths, t.exec, fv, d, r1)

RECURSIVE run_and_save(_, _, _, _, _, _, _)
\* Execution.run_and_save; r accumulates the runnables run on the way
run_and_save(seq, outs, paths, e, fv, d, r) ==
    IF complete(e)
    THEN LET s == save(e, outs, paths, d)
         IN  [exec |-> e, error |-> s.error, disk |-> s.disk, log |-> s.log,
              ran |-> r, task |-> 0, evicted |-> {}]
    ELSE LET t == run_one_tick(seq, outs, e, fv)
             r1 == IF t.task = 0 THEN r ELSE Append(r, t.task)
         IN  IF t.error # ""
             THEN [exec |-> t.exec, error |-> t.error, disk |-> d,
                   log |-> <<>>, ran |-> r1, task |-> t.task,
                   evicted |-> t.evicted]
             ELSE run_and_save(seq, outs, paths, t.exec, fv, d, r1)

----------------------------------------------------------------------------
(* The scheduler that counts references, the extension the design allows *)

\* the needed dependents of d, as the scheduler counts them: the needed
\* tasks that take d's result as an input
pending_dependents(seq, needed, d) ==
    {t \in needed : d \in runnable_dependencies(seq[t])}

\* the scheduler for one run of the Recipe: a pending-dependent counter for
\* every needed task, nothing run yet
Pool(seq, outs) ==
    LET needed == Execution(seq, outs).needed
    IN  [completed |-> {},
         results   |-> EmptyDict,
         counts    |-> [d \in needed |->
                           Cardinality(pending_dependents(seq, needed, d))],
         executed  |-> <<>>,
         error     |-> ""]

\* the results whose counter reaches zero when t completes and that are no
\* designated output
released(seq, outs, counts, t) ==
    {d \in runnable_dependencies(seq[t]) :
        d \notin Range(outs) /\ counts[d] = 0}

\* the scheduler runs task t: on success the result is cached, the counter
\* of each of t's dependencies is decremented, and the results whose counter
\* reached zero are evicted; a run that raises changes nothing but error
dispatch(seq, outs, p, t, fv) ==
    LET result == run(seq[t], p.results, fv)
    IN  IF result.error # ""
        THEN [p EXCEPT !.error = result.error,
                       !.executed = Append(@, t)]
        ELSE
        LET counts == [d \in DOMAIN p.counts |->
                          IF d \in runnable_dependencies(seq[t])
                          THEN p.counts[d] - 1 ELSE p.counts[d]]
        IN  [completed |-> p.completed \cup {t},
             results   |-> DictDel(DictSet(p.results, t, result.value),
                                   released(seq, outs, counts, t)),
             counts    |-> counts,
             executed  |-> Append(p.executed, t),
             error     |-> ""]

----------------------------------------------------------------------------
(* Recipe *)

\* the values a script can store in file_outputs besides a Runnable: a
\* FileProvider (file_inputs[0]) or a raw value
NotRunnable == {[kind |-> "file", ref |-> 0], [kind |-> "raw", ref |-> 0]}

\* isinstance(v, Runnable)
isRunnable(v) == v.kind = "runnable"

\* the validation of Recipe.__init__ after exec(): the exception it raises
\* on the mapping m the script left in file_outputs, "" when it returns
recipe_check(m, paths) ==
    IF Cardinality(DOMAIN m) # Len(paths) THEN "AssertionError"
    ELSE IF \E ix \in 0..(Cardinality(DOMAIN m) - 1) :
                ix \notin DOMAIN m \/ ~isRunnable(m[ix])
         THEN "AssertionError"
         ELSE ""

\* ordered_outputs filled from the last index down
ordered_outputs_reversed(m) ==
    [i \in 1..Cardinality(DOMAIN m) |-> m[Cardinality(DOMAIN m) - i].ref]

\* ordered_outputs of Recipe.__init__
ordered_outputs(m) == [i \in 1..Cardinality(DOMAIN m) |-> m[i - 1].ref]

----------------------------------------------------------------------------
(* The state machine *)

NoCall == [op |-> "", error |-> "", task |-> 0, evicted |-> {}, log |-> <<>>]

NoCompute ==
    [call |-> <<"", <<>>, <<>>>>, error |-> "", warnings |-> {},
     received |-> <<>>]

\* the state of the reference-counting scheduler before it is created
NoPool == [completed |-> {}, results |-> EmptyDict, counts |-> EmptyDict,
           executed |-> <<>>, error |-> ""]

NoRun == [done |-> FALSE, later |-> FALSE, ran |-> <<>>, log |-> <<>>]

Init ==
    /\ pc = "script"
    /\ fileValue \in FileValues
    /\ sequence = <<>>
    /\ outputs = <<>>
    /\ output_paths = <<>>
    /\ file_outputs = EmptyDict
    /\ parseError = ""
    /\ lastCompute = NoCompute
    /\ exec = NoExecution
    /\ exec2 = NoExecution
    /\ decoded = <<>>
    /\ pool = NoPool
    /\ ran = <<>>
    /\ lastCall = NoCall
    /\ disk = EmptyDict
    /\ firstRun = NoRun

\* the compute(...) calls a script makes when n Runnables exist, as
\* (algorithm, positional inputs, named options).  Those that construct a
\* Runnable: Multiply of the file input, of an earlier Runnable, or of
\* nothing (its run is then short of an argument and raises), Add of two
\* earlier Runnables (the same one twice included), and Multiply with a
\* file reference as an option its constructor does not declare.  Those
\* that raise: Multiply without factor or with an undeclared raw option,
\* a file reference for a declared option or for a run parameter whose type
\* has no loader, and more inputs than run parameters.  (Multiply with its
\* factor read from a file is among DecodeCalls.)  A script can only
\* pass Runnables that already exist, so every reference is to an earlier
\* position.
ScriptCalls(n) ==
    {<<"Multiply", <<FileInput>>, <<<<"factor", RawValue(2)>>>>>>,
     <<"Multiply", <<>>, <<<<"factor", RawValue(2)>>>>>>,
     <<"Multiply", <<FileInput>>,
       <<<<"factor", RawValue(2)>>, <<"extra", FileInput>>>>>>,
     <<"Multiply", <<FileInput>>, <<>>>>,
     <<"Multiply", <<FileInput>>,
       <<<<"factor", RawValue(2)>>, <<"extra", RawValue(1)>>>>>>,
     <<"Multiply", <<FileInput>>,
       <<<<"factor", RawValue(2)>>, <<"name", FileInput>>>>>>,
     <<"Multiply", <<FileInput, FileInput>>, <<<<"factor", RawValue(2)>>>>>>,
     <<"Add", <<FileInput, FileInput>>, <<>>>>}
    \cup {<<"Multiply", <<TaskInput(t)>>, <<<<"factor", RawValue(3)>>>>>> :
              t \in 1..n}
    \cup {<<"Add", <<TaskInput(p[1]), TaskInput(p[2])>>, <<>>>> :
              p \in {q \in (1..n) \X (1..n) : q[1] <= q[2]}}

\* OrderedSequence.__call__: one compute(...) of the script.  When
\* Runnable.__init__ raises, the exception leaves exec() and
\* Recipe.__init__: no Recipe exists and the Runnables are dropped.
Compute ==
    /\ pc = "script"
    /\ Len(sequence) < MaxTasks
    /\ \E c \in ScriptCalls(Len(sequence)) :
         LET r == RunnableInit(c[1], c[2], c[3], fileValue)
         IN  /\ lastCompute' = [call |-> c, error |-> r.error,
                                warnings |-> r.warnings,
                                received |-> r.received]
             /\ IF r.error = ""
                THEN /\ sequence' = Append(sequence, r.runnable)
                     /\ UNCHANGED <<pc, parseError>>
                ELSE /\ sequence' = <<>>
                     /\ pc' = "failed"
                     /\ parseError' = r.error
    /\ UNCHANGED <<fileValue, outputs, output_paths, file_outputs, exec, ran,
                   lastCall, disk, firstRun, exec2, decoded, pool>>

\* the mappings a script can leave in file_outputs when n Runnables exist
OutputMappings(n) ==
    UNION {[keys -> {TaskInput(t) : t \in 1..n} \cup NotRunnable] :
              keys \in SUBSET (0..(MaxOutputs - 1))}

\* Recipe.__init__ once the script has run: the checks of file_outputs
\* against output_paths, then the Recipe's fields.  When a check raises, no
\* Recipe exists and the Runnables of the script are dropped.
RecipeInit ==
    /\ pc = "script"
    /\ \E m \in OutputMappings(Len(sequence)) :
         \E n \in 0..MaxOutputs :
           LET paths == [i \in 1..n |-> i]
               error == recipe_check(m, paths)
           IN  /\ file_outputs' = m
               /\ output_paths' = paths
               /\ parseError' = error
               /\ IF error = ""
                  THEN /\ pc' = "recipe"
                       /\ outputs' = ordered_outputs(m)
                       /\ UNCHANGED sequence
                  ELSE /\ pc' = "failed"
                       /\ sequence' = <<>>
                       /\ UNCHANGED outputs
    /\ UNCHANGED <<fileValue, lastCompute, exec, ran, lastCall, disk, firstRun,
                   exec2, decoded, pool>>

\* Recipe.execution handing every Execution the same iterator over the
\* runnables
NewExecutionSharedIterator ==
    /\ pc \in {"recipe", "exec"}
    /\ pc = "exec" => lastCall.op = "save" /\ lastCall.error = "" /\ ~firstRun.later
    /\ pc' = "exec"
    /\ exec' = [Execution(sequence, outputs) EXCEPT !.cursor = exec.cursor]
    /\ ran' = <<>>
    /\ lastCall' = NoCall
    /\ firstRun' = [firstRun EXCEPT !.later = firstRun.done]
    /\ UNCHANGED <<fileValue, sequence, outputs, output_paths, file_outputs,
                   parseError, lastCompute, disk, exec2, decoded, pool>>

\* Recipe.execution: a fresh Execution of the Recipe, which replaces the
\* current one.  The model builds the first Execution and, once that one has
\* saved, a second one (two Executions of a Recipe in a behaviour).
NewExecution ==
    /\ pc \in {"recipe", "exec"}
    /\ pc = "exec" => lastCall.op = "save" /\ lastCall.error = "" /\ ~firstRun.later
    /\ pc' = "exec"
    /\ exec' = Execution(sequence, outputs)
    /\ ran' = <<>>
    /\ lastCall' = NoCall
    /\ firstRun' = [firstRun EXCEPT !.later = firstRun.done]
    /\ UNCHANGED <<fileValue, sequence, outputs, output_paths, file_outputs,
                   parseError, lastCompute, disk, exec2, decoded, pool>>

\* a call of run_one_tick that scans the list of Runnables from its start
\* instead of resuming the iterator
TickRescan ==
    /\ pc = "exec"
    /\ LET t == run_one_tick(sequence, outputs, [exec EXCEPT !.cursor = 0],
                             fileValue)
       IN  /\ exec' = t.exec
           /\ ran' = IF t.task = 0 THEN ran ELSE Append(ran, t.task)
           /\ lastCall' = [op |-> "run_one_tick", error |-> t.error,
                           task |-> t.task, evicted |-> t.evicted, log |-> <<>>]
    /\ UNCHANGED <<pc, fileValue, sequence, outputs, output_paths, file_outputs,
                   parseError, lastCompute, disk, firstRun, exec2,
                   decoded, pool>>

\* a call of Execution.run_one_tick
Tick ==
    /\ pc = "exec"
    /\ LET t == run_one_tick(sequence, outputs, exec, fileValue)
       IN  /\ exec' = t.exec
           /\ ran' = IF t.task = 0 THEN ran ELSE Append(ran, t.task)
           /\ lastCall' = [op |-> "run_one_tick", error |-> t.error,
                           task |-> t.task, evicted |-> t.evicted, log |-> <<>>]
    /\ UNCHANGED <<pc, fileValue, sequence, outputs, output_paths, file_outputs,
                   parseError, lastCompute, disk, firstRun, exec2,
                   decoded, pool>>

\* what a call that ended in save leaves in firstRun
Recorded(error, r, log) ==
    IF error = "" /\ ~firstRun.done
    THEN [done |-> TRUE, later |-> FALSE, ran |-> r, log |-> log]
    ELSE firstRun

\* a call of Execution.save
Save ==
    /\ pc = "exec"
    /\ LET s == save(exec, outputs, output_paths, disk)
       IN  /\ disk' = s.disk
           /\ lastCall' = [op |-> "save", error |-> s.error, task |-> 0,
                           evicted |-> {}, log |-> s.log]
           /\ firstRun' = Recorded(s.error, ran, s.log)
    /\ UNCHANGED <<pc, fileValue, sequence, outputs, output_paths, file_outputs,
                   parseError, lastCompute, exec, ran, exec2, decoded, pool>>

\* a call of Execution.run_and_save, as one step: the loop of run_one_tick
\* calls and the save.  lastCall is that of the call it ended in: the tick
\* that raised, or save.
RunAndSave ==
    /\ pc = "exec"
    /\ LET s == run_and_save(sequence, outputs, output_paths, exec, fileValue,
                             disk, ran)
       IN  /\ exec' = s.exec
           /\ ran' = s.ran
           /\ disk' = s.disk
           /\ lastCall' = [op |-> IF s.task = 0 /\ s.error # "StopIteration"
                                  THEN "save" ELSE "run_one_tick",
                           error |-> s.error, task |-> s.task,
                           evicted |-> s.evicted, log |-> s.log]
           /\ firstRun' = IF s.task = 0 /\ s.error # "StopIteration"
                          THEN Recorded(s.error, s.ran, s.log) ELSE firstRun
    /\ UNCHANGED <<pc, fileValue, sequence, outputs, output_paths, file_outputs,
                   parseError, lastCompute, exec2, decoded, pool>>

Next ==
    \/ Compute
    \/ RecipeInit
    \/ NewExecution
    \/ Tick
    \/ Save
    \/ RunAndSave

Spec == Init /\ [][Next]_vars

\* Two Executions of one Recipe, ticked in any interleaving.

\* recipe.execution() called twice
NewExecutionPair ==
    /\ pc = "recipe"
    /\ pc' = "exec"
    /\ exec' = Execution(sequence, outputs)
    /\ exec2' = Execution(sequence, outputs)
    /\ ran' = <<>>
    /\ lastCall' = NoCall
    /\ UNCHANGED <<fileValue, sequence, outputs, output_paths, file_outputs,
                   parseError, lastCompute, disk, firstRun, decoded, pool>>

\* a call of run_one_tick on the second Execution that advances an iterator
\* the two Executions share
TickSecondSharedIterator ==
    /\ pc = "exec"
    /\ exec2 # NoExecution
    /\ LET t == run_one_tick(sequence, outputs, exec2, fileValue)
       IN  /\ exec2' = t.exec
           /\ exec' = [exec EXCEPT !.cursor = t.exec.cursor]
    /\ UNCHANGED <<pc, fileValue, sequence, outputs, output_paths, file_outputs,
                   parseError, lastCompute, ran, lastCall, disk, firstRun,
                   decoded, pool>>

\* a call of run_one_tick on the second Execution
TickSecond ==
    /\ pc = "exec"
    /\ exec2 # NoExecution
    /\ exec2' = run_one_tick(sequence, outputs, exec2, fileValue).exec
    /\ UNCHANGED <<pc, fileValue, sequence, outputs, output_paths, file_outputs,
                   parseError, lastCompute, exec, ran, lastCall, disk,
                   firstRun, decoded, pool>>

NextTwo ==
    \/ Compute
    \/ RecipeInit
    \/ NewExecutionPair
    \/ Tick
    \/ TickSecond

SpecTwo == Init /\ [][NextTwo]_vars

\* The decodings of file references, at construction and at run.

\* the compute(...) calls of a script that reads files: Multiply of the file
\* input or of an earlier Runnable, with its factor given or read from a
\* file
DecodeCalls(n) ==
    {<<"Multiply", <<FileInput>>, <<<<"factor", RawValue(2)>>>>>>,
     <<"Multiply", <<FileInput>>, <<<<"factor", FileInput>>>>>>}
    \cup {<<"Multiply", <<TaskInput(t)>>, <<<<"factor", RawValue(3)>>>>>> :
              t \in 1..n}

\* the decodings of one call: n file references of one kind, for one task
Decodings(phase, task, kind, n) ==
    IF n = 0 THEN <<>>
    ELSE <<[phase |-> phase, task |-> task, kind |-> kind, n |-> n]>>

\* OrderedSequence.__call__ with the decodings of Runnable.__init__ logged
ComputeDecode ==
    /\ pc = "script"
    /\ Len(sequence) < MaxTasks
    /\ \E c \in DecodeCalls(Len(sequence)) :
         LET r == RunnableInit(c[1], c[2], c[3], fileValue)
             task == Len(sequence) + 1
         IN  /\ lastCompute' = [call |-> c, error |-> r.error,
                                warnings |-> r.warnings,
                                received |-> r.received]
             /\ decoded' = decoded
                    \o Decodings("parse", task, "option", Cardinality(r.loaded))
                    \o Decodings("parse", task, "input",
                                 Cardinality(r.input_loads))
             /\ IF r.error = ""
                THEN /\ sequence' = Append(sequence, r.runnable)
                     /\ UNCHANGED <<pc, parseError>>
                ELSE /\ sequence' = <<>>
                     /\ pc' = "failed"
                     /\ parseError' = r.error
    /\ UNCHANGED <<fileValue, outputs, output_paths, file_outputs, exec, ran,
                   lastCall, disk, firstRun, exec2, pool>>

\* a call of Execution.run_one_tick with the decodings of Runnable.run logged
TickDecode ==
    /\ pc = "exec"
    /\ LET t == run_one_tick(sequence, outputs, exec, fileValue)
       IN  /\ exec' = t.exec
           /\ ran' = IF t.task = 0 THEN ran ELSE Append(ran, t.task)
           /\ lastCall' = [op |-> "run_one_tick", error |-> t.error,
                           task |-> t.task, evicted |-> t.evicted, log |-> <<>>]
           /\ decoded' =
                 IF t.task = 0 THEN decoded
                 ELSE decoded
                          \o Decodings("tick", t.task, "input",
                                 Cardinality(run_loads(sequence[t.task],
                                                       exec.results)))
    /\ UNCHANGED <<pc, fileValue, sequence, outputs, output_paths, file_outputs,
                   parseError, lastCompute, disk, firstRun, exec2, pool>>

NextDecode ==
    \/ ComputeDecode
    \/ RecipeInit
    \/ NewExecution
    \/ TickDecode

SpecDecode == Init /\ [][NextDecode]_vars

\* The scan of run_one_tick beside the scheduler that counts references.

\* Recipe.execution, and a scheduler of the other kind for the same run
NewSchedulers ==
    /\ pc = "recipe"
    /\ pc' = "exec"
    /\ exec' = Execution(sequence, outputs)
    /\ pool' = Pool(sequence, outputs)
    /\ ran' = <<>>
    /\ lastCall' = NoCall
    /\ UNCHANGED <<fileValue, sequence, outputs, output_paths, file_outputs,
                   parseError, lastCompute, disk, firstRun, exec2, decoded>>

\* a call of Execution.run_one_tick, the scheduler running the same task
TickBoth ==
    /\ pc = "exec"
    /\ LET t == run_one_tick(sequence, outputs, exec, fileValue)
       IN  /\ exec' = t.exec
           /\ ran' = IF t.task = 0 THEN ran ELSE Append(ran, t.task)
           /\ lastCall' = [op |-> "run_one_tick", error |-> t.error,
                           task |-> t.task, evicted |-> t.evicted, log |-> <<>>]
           /\ pool' = IF t.task = 0 THEN pool
                      ELSE dispatch(sequence, outputs, pool, t.task, fileValue)
    /\ UNCHANGED <<pc, fileValue, sequence, outputs, output_paths, file_outputs,
                   parseError, lastCompute, disk, firstRun, exec2, decoded>>

NextRefCount ==
    \/ Compute
    \/ RecipeInit
    \/ NewSchedulers
    \/ TickBoth

SpecRefCount == Init /\ [][NextRefCount]_vars

\* The worker pool: needed tasks run in any order that respects the
\* dependencies.

\* the needed tasks the pool can start: not run yet, every dependency
\* completed
Dispatchable ==
    {t \in DOMAIN pool.counts \ Range(pool.executed) :
        runnable_dependencies(sequence[t]) \subseteq pool.completed}

\* a worker runs one dispatchable task; a run that raised ends the pool's
\* run, as a failing tick ends the Execution's
Dispatch ==
    /\ pc = "exec"
    /\ pool.error = ""
    /\ \E t \in Dispatchable :
         pool' = dispatch(sequence, outputs, pool, t, fileValue)
    /\ UNCHANGED <<pc, fileValue, sequence, outputs, output_paths, file_outputs,
                   parseError, lastCompute, exec, ran, lastCall, disk,
                   firstRun, exec2, decoded>>

NextPool ==
    \/ Compute
    \/ RecipeInit
    \/ NewSchedulers
    \/ Dispatch

SpecPool == Init /\ [][NextPool]_vars

----------------------------------------------------------------------------
(* Vocabulary of the properties *)

RECURSIVE Closure(_, _)
\* the least set that holds S and the dependencies of its members
Closure(seq, S) ==
    LET S1 == S \cup UNION {runnable_dependencies(seq[t]) : t \in S}
    IN  IF S1 = S THEN S ELSE Closure(seq, S1)

\* the tasks reachable from the outputs along dependency edges
Reachable == Closure(sequence, Range(outputs))

OutputTasks == Range(outputs)

\* the dependents-index entry of t, empty when t is no key
DependentsOf(t) ==
    IF t \in DOMAIN exec.dependents THEN exec.dependents[t] ELSE {}

\* the tasks whose run was called and raised
FailedTasks == Range(ran) \ exec.completed

\* the tasks the next run_one_tick can still pick
Pending == {i \in (exec.cursor + 1)..Len(sequence) : i \in exec.needed}

TickDone == lastCall.op = "run_one_tick" /\ lastCall.error = ""

SaveDone == lastCall.op = "save" /\ lastCall.error = ""

----------------------------------------------------------------------------
(* C1: the needed-set of an Execution is exactly the set of tasks reachable *)
(* from the output tasks along positional-input dependency edges, and no   *)
(* task outside that set is ever run by any sequence of run_one_tick calls. *)
C1_NeededIsReachable ==
    pc = "exec" =>
        /\ exec.needed = Reachable
        /\ Range(ran) \subseteq Reachable
        /\ exec.completed \subseteq Reachable

\* an Execution whose scan has passed a decoy task, and that ran a task
\* reached only through another task
C1_Witness ==
    /\ pc = "exec"
    /\ complete(exec)
    /\ \E decoy \in 1..Len(sequence) :
           decoy \notin Reachable /\ decoy < exec.cursor
    /\ \E t \in Range(ran) : t \notin OutputTasks

(* C2: after every successful run_one_tick the results-cache holds no      *)
(* entry for a non-output task all of whose dependents (per the            *)
(* dependents-index) are completed.                                         *)
C2_NoDeadEntries ==
    pc = "exec" =>
        \A t \in DOMAIN exec.results :
            t \notin OutputTasks => ~(DependentsOf(t) \subseteq exec.completed)

\* a successful tick that evicted a result two tasks depended on
C2_Witness ==
    /\ pc = "exec"
    /\ TickDone
    /\ \E d \in lastCall.evicted :
           Cardinality(DependentsOf(d)) >= 2 /\ d \notin DOMAIN exec.results

(* C3: in an Execution with no failing tick, whenever run_one_tick runs a  *)
(* task the results-cache holds an entry for every task among its           *)
(* positional inputs; a lookup of previous_results fails only after an      *)
(* earlier tick has failed.                                                 *)
C3_InputsCached ==
    pc = "exec" =>
        /\ (FailedTasks = {} /\ Pending # {}) =>
               runnable_dependencies(sequence[Min(Pending)])
                   \subseteq DOMAIN exec.results
        /\ (lastCall.op = "run_one_tick" /\ lastCall.error = "KeyError") =>
               FailedTasks \ {lastCall.task} # {}

\* no tick has failed, a result has been evicted, and the next task to run
\* reads a cached result
C3_Witness ==
    /\ pc = "exec"
    /\ FailedTasks = {}
    /\ Pending # {}
    /\ runnable_dependencies(sequence[Min(Pending)]) # {}
    /\ exec.completed \ DOMAIN exec.results # {}

(* C4: the result of a designated output is never evicted: once an output  *)
(* task has run its entry stays in the results-cache, also when it is a     *)
(* dependency of tasks that have all completed; so when complete is true    *)
(* the cache holds every output and save finds it.                          *)
C4_OutputsKept ==
    pc = "exec" =>
        /\ \A o \in OutputTasks : o \in exec.completed => o \in DOMAIN exec.results
        /\ complete(exec) => OutputTasks \subseteq DOMAIN exec.results
        /\ lastCall.op = "save" => lastCall.error \in {"", "AssertionError"}

\* a saved Execution with an output that other completed tasks depend on
C4_Witness ==
    /\ pc = "exec"
    /\ SaveDone
    /\ \E o \in OutputTasks :
           /\ DependentsOf(o) # {}
           /\ DependentsOf(o) \subseteq exec.completed
           /\ o \in DOMAIN exec.results

\* a non-output task whose needed dependents are exactly b and c
FeedsBoth(a, b, c) ==
    /\ a \notin OutputTasks
    /\ b # c
    /\ DependentsOf(a) = {b, c}

(* C5: when a non-output task A is a positional input of two needed tasks  *)
(* B and C (its dependents are B and C), A's result is in the results-cache *)
(* in every state from the tick that runs A until both B and C have run,    *)
(* and the tick that completes the second of them deletes it.               *)
C5_SharedInputKept ==
    pc = "exec" =>
        \A a \in exec.needed : \A b \in exec.needed : \A c \in exec.needed :
            FeedsBoth(a, b, c) =>
                /\ (a \in exec.completed /\ ~({b, c} \subseteq exec.completed))
                       => a \in DOMAIN exec.results
                /\ {b, c} \subseteq exec.completed => a \notin DOMAIN exec.results
                /\ (TickDone /\ lastCall.task \in {b, c}
                        /\ {b, c} \subseteq exec.completed)
                       => a \in lastCall.evicted
                /\ (TickDone /\ a \in lastCall.evicted)
                       => lastCall.task \in {b, c}

\* A is cached after one of B and C has run and the other has not
C5_Witness ==
    /\ pc = "exec"
    /\ TickDone
    /\ \E a \in exec.needed : \E b \in exec.needed : \E c \in exec.needed :
           /\ FeedsBoth(a, b, c)
           /\ lastCall.task = b
           /\ c \notin exec.completed
           /\ a \in DOMAIN exec.results

RECURSIVE Denote(_, _, _)
\* the value of task t: its algorithm applied to the values of its inputs
Denote(seq, t, fv) ==
    AlgorithmRun(seq[t],
                 [i \in DOMAIN seq[t].inputs |->
                     IF seq[t].inputs[i].kind = "runnable"
                     THEN Denote(seq, seq[t].inputs[i].ref, fv)
                     ELSE fv])

\* file_outputs[0] = compute("filter", "Multiply", file_inputs[0], factor=2)
SingleRecipe ==
    /\ sequence = <<Runnable("Multiply", 2, <<FileInput>>)>>
    /\ outputs = <<1>>

\* t0 = compute("filter", "Multiply", file_inputs[0], factor=2)
\* t1 = compute("filter", "Multiply", t0, factor=3); file_outputs[0] = t1
ChainRecipe ==
    /\ sequence = <<Runnable("Multiply", 2, <<FileInput>>),
                    Runnable("Multiply", 3, <<TaskInput(1)>>)>>
    /\ outputs = <<2>>

(* C6: run_and_save writes, for each output, the value obtained by         *)
(* applying each task's algorithm to its resolved inputs along the         *)
(* dependency graph: a single Multiply of the input saves input * factor,  *)
(* the chain t0 = Multiply(input, 2), t1 = Multiply(t0, 3) on input 5      *)
(* saves 30, and in the chain t0's cached result is removed by the tick    *)
(* that completes t1.                                                       *)
C6_SavedValues ==
    pc = "exec" =>
        /\ SaveDone =>
               \A i \in 1..Len(outputs) :
                   /\ output_paths[i] \in DOMAIN disk
                   /\ disk[output_paths[i]] = Denote(sequence, outputs[i], fileValue)
        /\ (SingleRecipe /\ SaveDone) => disk[output_paths[1]] = fileValue * 2
        /\ (ChainRecipe /\ SaveDone /\ fileValue = 5) => disk[output_paths[1]] = 30
        /\ ChainRecipe =>
               /\ (1 \in exec.completed /\ 2 \notin exec.completed)
                      => 1 \in DOMAIN exec.results
               /\ 2 \in exec.completed => 1 \notin DOMAIN exec.results
               /\ (TickDone /\ lastCall.task = 2) => lastCall.evicted = {1}

\* the chain recipe saved 30 for the input 5, with t0 evicted
C6_Witness ==
    /\ pc = "exec"
    /\ ChainRecipe
    /\ SaveDone
    /\ fileValue = 5
    /\ disk[output_paths[1]] = 30
    /\ 1 \notin DOMAIN exec.results
    /\ ran = <<1, 2>>

\* s is an initial segment of t
IsPrefix(s, t) == Len(s) <= Len(t) /\ \A i \in 1..Len(s) : s[i] = t[i]

(* C7: determinism: a second fresh Execution of the same Recipe runs the   *)
(* same tasks in the same order as the first one that saved, fails in no   *)
(* tick, and its save writes the same values to the same destinations.     *)
C7_Determinism ==
    (pc = "exec" /\ firstRun.later) =>
        /\ IsPrefix(ran, firstRun.ran)
        /\ (lastCall.op = "run_one_tick" /\ lastCall.error # "")
               => (lastCall.error = "StopIteration" /\ complete(exec))
        /\ complete(exec) => ran = firstRun.ran
        /\ lastCall.op = "save" /\ complete(exec) => lastCall.error = ""
        /\ SaveDone => lastCall.log = firstRun.log

\* a second Execution has run two tasks or more and saved
C7_Witness ==
    /\ pc = "exec"
    /\ firstRun.later
    /\ SaveDone
    /\ Len(ran) >= 2
    /\ Len(lastCall.log) >= 1
    /\ lastCall.log = firstRun.log

(* C8: when the number of entries the script puts in file_outputs differs  *)
(* from the number of output destinations, Recipe construction fails with  *)
(* RecipeError and no Recipe is produced.                                   *)
C8_CountMismatchIsRecipeError ==
    Cardinality(DOMAIN file_outputs) # Len(output_paths)
        => (pc = "failed" /\ parseError = "RecipeError")

\* an index below the size of m that m lacks, or that holds no Runnable
BadMapping(m) ==
    \E ix \in 0..(Cardinality(DOMAIN m) - 1) :
        ix \notin DOMAIN m \/ ~isRunnable(m[ix])

(* C9: when file_outputs has the right size but an index in 0..N-1 is      *)
(* missing or a value is not a Task, Recipe construction fails with        *)
(* RecipeError and no Recipe is produced.                                   *)
C9_BadMappingIsRecipeError ==
    (Cardinality(DOMAIN file_outputs) = Len(output_paths) /\ BadMapping(file_outputs))
        => (pc = "failed" /\ parseError = "RecipeError")

(* C10: outputs are matched positionally to destinations: save writes, for *)
(* every index i, the cached result of the task assigned to                *)
(* file_outputs[i] to the i-th output destination, and nothing else.       *)
C10_PositionalSave ==
    (pc = "exec" /\ SaveDone) =>
        /\ Len(lastCall.log) = Len(output_paths)
        /\ DOMAIN disk = Range(output_paths)
        /\ \A i \in 1..Len(output_paths) :
               /\ (i - 1) \in DOMAIN file_outputs
               /\ lastCall.log[i] =
                      <<output_paths[i], exec.results[file_outputs[i - 1].ref]>>
               /\ disk[output_paths[i]] = exec.results[file_outputs[i - 1].ref]

\* two outputs with different values, assigned against declaration order
C10_Witness ==
    /\ pc = "exec"
    /\ SaveDone
    /\ Len(output_paths) = 2
    /\ file_outputs[0].ref > file_outputs[1].ref
    /\ disk[output_paths[1]] # disk[output_paths[2]]
    /\ disk[output_paths[1]] = exec.results[file_outputs[0].ref]

\* the last compute(...) got as far as calling the algorithm constructor,
\* and the constructor raised
ConstructorRaised ==
    /\ lastCompute.call # NoCompute.call
    /\ LET o == format_options(lastCompute.call[1], lastCompute.call[3], 1,
                             NoOptions, fileValue)
       IN  o.error = "" /\ ConstructorRaises(lastCompute.call[1], o.formatted)

ExtraFileOptions ==
    {lastCompute.call[3][i][1] :
        i \in {j \in DOMAIN lastCompute.call[3] :
                  /\ lastCompute.call[3][j][2].kind = "file"
                  /\ lastCompute.call[3][j][1]
                         \notin ConstructorParams(lastCompute.call[1])}}

\* the names of the options the algorithm constructor received
ReceivedNames ==
    {lastCompute.received[i][1] : i \in DOMAIN lastCompute.received}

RunRaised ==
    {t \in Range(ran) :
        /\ \A i \in DOMAIN sequence[t].inputs :
              sequence[t].inputs[i].kind = "file"
        /\ AlgorithmRaises(sequence[t], sequence[t].inputs)}

\* C13: once the run of a task has raised in run_one_tick, the call that
\* ran it ended with ExecutionError, the task is not completed, the
\* Execution is not complete in this or any later state, and every save
\* fails on its precondition without writing.  (Later ticks still run the
\* needed tasks that do not depend on the failed one.)
C13_FailedTickIsFinal ==
    (pc = "exec" /\ RunRaised # {}) =>
        /\ RunRaised \cap exec.completed = {}
        /\ ~complete(exec)
        /\ (lastCall.op = "run_one_tick" /\ lastCall.task \in RunRaised)
               => lastCall.error = "ExecutionError"
        /\ lastCall.op = "save"
               => (lastCall.error = "AssertionError" /\ lastCall.log = <<>>)

\* a save attempted after a failed tick and further failing ticks
C13_Witness ==
    /\ pc = "exec"
    /\ RunRaised # {}
    /\ Len(ran) > 1
    /\ ran[1] \in RunRaised
    /\ lastCall.op = "save"

\* C14: within one Execution no task is run twice, whatever calls are made:
\* not after a tick that failed, and not after the Execution is complete.
C14_RunAtMostOnce ==
    \A i, j \in DOMAIN ran : i # j => ran[i] # ran[j]

\* ticks went on after a failed one until the sequence was exhausted
C14_Witness ==
    /\ pc = "exec"
    /\ Len(ran) >= 2
    /\ ran[1] \in FailedTasks
    /\ lastCall.op = "run_one_tick"
    /\ lastCall.error = "StopIteration"

\* C15 as stated: every task with an entry in the results cache is still
\* in the remaining outputs or has a dependent that has not completed.
C15_CachedIsPendingOutput ==
    pc = "exec" =>
        \A t \in DOMAIN exec.results :
            \/ t \in exec.incomplete
            \/ \E d \in DependentsOf(t) : d \notin exec.completed

\* C15, amended: every task with an entry in the results cache is an output
\* task, completed or not, or has a dependent that has not completed.
C15_CachedIsOutputOrAwaited ==
    pc = "exec" =>
        \A t \in DOMAIN exec.results :
            \/ t \in OutputTasks
            \/ \E d \in DependentsOf(t) : d \notin exec.completed

\* a completed output is cached beside a task a dependent still waits for
C15_Witness ==
    /\ pc = "exec"
    /\ \E t \in DOMAIN exec.results :
          /\ t \in OutputTasks \ exec.incomplete
          /\ DependentsOf(t) \subseteq exec.completed
    /\ \E t \in DOMAIN exec.results \ OutputTasks :
          \E d \in DependentsOf(t) : d \notin exec.completed

\* the last compute(...) passed a file reference for a declared option
\* whose type has no loader
UnmatchedOption ==
    \E i \in DOMAIN lastCompute.call[3] :
        /\ lastCompute.call[3][i][2].kind = "file"
        /\ lastCompute.call[3][i][1] \in ConstructorParams(lastCompute.call[1])
        /\ ~ConstructorLoadable(lastCompute.call[1], lastCompute.call[3][i][1])

\* the last compute(...) passed a file reference for a run parameter whose
\* type has no loader, and nothing else that fails
UnmatchedInput ==
    /\ lastCompute.call # NoCompute.call
    /\ ~UnmatchedOption
    /\ ~ConstructorRaised
    /\ Len(lastCompute.call[2]) <= RunArity(lastCompute.call[1])
    /\ \E i \in DOMAIN lastCompute.call[2] :
          /\ lastCompute.call[2][i].kind = "file"
          /\ ~RunLoadable(lastCompute.call[1], i)

\* C16 as stated: an unmatched file reference raises TypeInferenceError
\* while the script is parsed when it is a named option; when it is a
\* positional input the Runnable and the Recipe are constructed and the
\* error waits for the tick that runs the task.
C16_InputErrorAtTick ==
    /\ UnmatchedOption =>
          (lastCompute.error = "TypeInferenceError" /\ pc = "failed")
    /\ UnmatchedInput =>
          (lastCompute.error = "" /\ parseError # "TypeInferenceError")

\* C16, amended: an unmatched file reference raises TypeInferenceError
\* while the script is parsed, as a named option and as a positional input
\* alike; no Recipe is constructed and no call on an Execution ends with
\* TypeInferenceError.
C16_ErrorAtParse ==
    /\ (UnmatchedOption \/ UnmatchedInput) =>
          /\ lastCompute.error = "TypeInferenceError"
          /\ parseError = "TypeInferenceError"
          /\ pc = "failed"
          /\ exec = NoExecution
    /\ lastCall.error # "TypeInferenceError"

\* Add of two file references: the second run parameter has no annotation
C16_Witness ==
    /\ UnmatchedInput
    /\ lastCompute.call = <<"Add", <<FileInput, FileInput>>, <<>>>>
    /\ parseError = "TypeInferenceError"

\* C17: a save called while some output has not completed fails on its
\* precondition before anything is written: the call raises, it writes no
\* destination, and the Execution is as it was.
C17_SaveNeedsComplete ==
    [][(pc' = "exec" /\ lastCall'.op = "save" /\ ~complete(exec')) =>
          /\ lastCall'.error = "AssertionError"
          /\ lastCall'.log = <<>>
          /\ disk' = disk
          /\ exec' = exec
          /\ ran' = ran]_vars

\* save was refused although one of two outputs is completed and cached
C17_Witness ==
    /\ pc = "exec"
    /\ lastCall.op = "save"
    /\ lastCall.error = "AssertionError"
    /\ exec.incomplete # {}
    /\ OutputTasks \cap DOMAIN exec.results # {}
    /\ outputs[1] \in exec.completed

\* the tasks run in this Execution before the last one that was run
RanBefore == {ran[i] : i \in 1..(Len(ran) - 1)}

\* the task a scan of the whole sequence from its start selects: the first
\* in declaration order that is needed and was not run before; 0 when
\* there is none
Rescan(before) ==
    LET eligible == {i \in 1..Len(sequence) :
                        i \in exec.needed /\ i \notin before}
    IN  IF eligible = {} THEN 0 ELSE Min(eligible)

RECURSIVE SoloRun(_, _)
\* the states of an Execution of the Recipe that is ticked k times with no
\* other Execution beside it, starting in state e
SoloRun(e, k) ==
    IF k = 0 THEN {e}
    ELSE {e} \cup SoloRun(run_one_tick(sequence, outputs, e, fileValue).exec,
                          k - 1)

\* C18: of two Executions of one Recipe ticked in any interleaving, a tick
\* of one leaves the cursor, completed set, results cache and remaining
\* outputs of the other as they were, and each is always in a state it
\* reaches when ticked alone, failing ticks included.
C18_Independent ==
    /\ [](pc = "exec" =>
            /\ exec \in SoloRun(Execution(sequence, outputs), Len(sequence) + 1)
            /\ exec2 \in SoloRun(Execution(sequence, outputs),
                                 Len(sequence) + 1))
    /\ [][pc = "exec" =>
            /\ exec2' # exec2 => exec' = exec
            /\ exec' # exec => exec2' = exec2]_vars

\* the second Execution is exhausted after a failed tick while the first
\* has made one tick
C18_Witness ==
    /\ pc = "exec"
    /\ exec2 # NoExecution
    /\ exec2.cursor = Len(sequence)
    /\ exec2.completed # exec2.needed
    /\ exec2.completed # {}
    /\ Len(ran) = 1
    /\ exec.cursor < exec2.cursor

\* C19 as stated: every call of run_one_tick runs exactly one task, the
\* first in declaration order that is needed and not yet run, which is the
\* task a rescan from the start selects; tasks that are not needed are
\* never run.
C19_EveryTickRunsOne ==
    (pc = "exec" /\ lastCall.op = "run_one_tick") =>
        /\ lastCall.task # 0
        /\ ran # <<>>
        /\ lastCall.task = ran[Len(ran)]
        /\ lastCall.task = Rescan(RanBefore)
        /\ Range(ran) \subseteq exec.needed

\* C19, amended: a call of run_one_tick made while a needed task has not
\* yet been run runs exactly that one task, the first such in declaration
\* order, which is the task a rescan from the start selects; tasks that
\* are not needed are never run; a call made when every needed task has
\* been run runs no task and raises StopIteration.
C19_TickRunsFirstEligible ==
    (pc = "exec" /\ lastCall.op = "run_one_tick") =>
        /\ Range(ran) \subseteq exec.needed
        /\ IF lastCall.task # 0
           THEN /\ ran # <<>>
                /\ lastCall.task = ran[Len(ran)]
                /\ lastCall.task = Rescan(RanBefore)
           ELSE /\ Rescan(Range(ran)) = 0
                /\ lastCall.error = "StopIteration"

\* a tick skipped a task that is not needed and ran the third, after the
\* first had failed
C19_Witness ==
    /\ pc = "exec"
    /\ lastCall.op = "run_one_tick"
    /\ lastCall.task = 3
    /\ ran = <<1, 3>>
    /\ 2 \notin exec.needed
    /\ 1 \in FailedTasks

\* C20: the remaining outputs are exactly the output tasks that have not
\* completed, so an Execution is complete exactly when every output task
\* has run successfully.
C20_RemainingOutputs ==
    pc = "exec" =>
        /\ exec.incomplete = OutputTasks \ exec.completed
        /\ complete(exec) <=> OutputTasks \subseteq exec.completed

\* one of two outputs has completed, behind a task that is no output
C20_Witness ==
    /\ pc = "exec"
    /\ Cardinality(OutputTasks) = 2
    /\ Cardinality(exec.incomplete) = 1
    /\ exec.completed \ OutputTasks # {}
    /\ ~complete(exec)

\* the run of every needed task of the Recipe succeeds
NeededSucceed ==
    \A t \in Execution(sequence, outputs).needed :
        Len(sequence[t].inputs) = RunArity(sequence[t].alg)

\* C21: run_and_save on a new Execution of a Recipe whose needed tasks all
\* succeed returns: it has run every needed task once and no other, in as
\* many ticks as there are needed tasks, the completed set is the needed
\* set, no tick found the sequence exhausted, and save has written every
\* output once.
C21_RunAndSaveTerminates ==
    [][(/\ RunAndSave
        /\ exec = Execution(sequence, outputs)
        /\ NeededSucceed) =>
          /\ lastCall'.op = "save"
          /\ lastCall'.error = ""
          /\ Len(ran') = Cardinality(exec.needed)
          /\ Range(ran') = exec.needed
          /\ exec'.completed = exec.needed
          /\ complete(exec')
          /\ Len(lastCall'.log) = Len(outputs)]_vars

\* two needed tasks were run and saved, a third task was not needed
C21_Witness ==
    /\ pc = "exec"
    /\ NeededSucceed
    /\ SaveDone
    /\ Len(ran) = 2
    /\ Len(sequence) = 3
    /\ exec.completed = exec.needed
    /\ firstRun.done /\ firstRun.ran = ran

\* every Runnable among the positional inputs of a task was declared
\* strictly earlier
DeclaredEarlier ==
    \A t \in DOMAIN sequence :
        runnable_dependencies(sequence[t]) \subseteq 1..(t - 1)

NeededConsumers(d) ==
    {t \in Reachable : d \in runnable_dependencies(sequence[t])}

\* the tasks outside the needed set that take d as a positional input
DecoyConsumers(d) ==
    {t \in DOMAIN sequence \ Reachable :
        d \in runnable_dependencies(sequence[t])}

\* C23: the index of dependents maps each task to exactly the needed tasks
\* that take it as a positional input, with a key for exactly the tasks that
\* have one; a consumer outside the needed set is never recorded, so the
\* result of a task that is no output is gone once its needed consumers
\* have completed, whatever other consumers it has.
C23_DependentsIndex ==
    pc = "exec" =>
        /\ DOMAIN exec.dependents =
              {d \in DOMAIN sequence : NeededConsumers(d) # {}}
        /\ \A d \in DOMAIN sequence :
              /\ DependentsOf(d) = NeededConsumers(d)
              /\ DependentsOf(d) \cap DecoyConsumers(d) = {}
              /\ (/\ d \notin OutputTasks
                  /\ NeededConsumers(d) # {}
                  /\ NeededConsumers(d) \subseteq exec.completed)
                    => d \notin DOMAIN exec.results

\* a result was evicted although a task outside the needed set takes it
C23_Witness ==
    /\ pc = "exec"
    /\ \E d \in exec.completed \ DOMAIN exec.results :
          /\ DecoyConsumers(d) # {}
          /\ NeededConsumers(d) # {}

\* C24: a complete Execution stays complete under every call made on it,
\* and a run_one_tick call on it runs no task and leaves the completed set
\* and the results cache as they were.
C24_CompleteIsTerminal ==
    [][(pc = "exec" /\ complete(exec) /\ lastCall'.op # "") =>
          /\ complete(exec')
          /\ exec'.completed = exec.completed
          /\ exec'.results = exec.results
          /\ ran' = ran
          /\ lastCall'.op = "run_one_tick" =>
                (lastCall'.task = 0 /\ lastCall'.error = "StopIteration")]_vars

\* a tick was made on an Execution that had completed its two outputs
C24_Witness ==
    /\ pc = "exec"
    /\ complete(exec)
    /\ Cardinality(exec.completed) >= 2
    /\ lastCall.op = "run_one_tick"
    /\ lastCall.task = 0

\* C28: a run_one_tick call in which the run of the task raises leaves the
\* completed set, the results cache and the remaining outputs as they
\* were, the failed task in none of them, and evicts nothing.
C28_FailingTickRecordsNothing ==
    [][(Tick /\ lastCall'.task # 0 /\ lastCall'.error # "") =>
          /\ exec'.completed = exec.completed
          /\ exec'.results = exec.results
          /\ exec'.incomplete = exec.incomplete
          /\ lastCall'.task \notin exec'.completed
          /\ lastCall'.task \notin DOMAIN exec'.results
          /\ lastCall'.evicted = {}]_vars

\* the run of an output raised while the result of another task was cached
C28_Witness ==
    /\ pc = "exec"
    /\ lastCall.op = "run_one_tick"
    /\ lastCall.error = "ExecutionError"
    /\ lastCall.task \in exec.incomplete
    /\ DOMAIN exec.results # {}

\* C29: the keys of the results cache are completed tasks and the completed
\* tasks are needed tasks, in every state of an Execution; a successful
\* run_one_tick call adds the one task it ran, which was not completed, to
\* the completed set and removes none.
C29_CacheCompletedNeeded ==
    /\ [](pc = "exec" =>
            /\ DOMAIN exec.results \subseteq exec.completed
            /\ exec.completed \subseteq exec.needed)
    /\ [][(Tick /\ lastCall'.error = "") =>
            /\ lastCall'.task \in exec.needed \ exec.completed
            /\ exec'.completed = exec.completed \cup {lastCall'.task}]_vars

\* a completed task has been evicted and a needed task has not yet run
C29_Witness ==
    /\ pc = "exec"
    /\ TickDone
    /\ DOMAIN exec.results # exec.completed
    /\ exec.completed # exec.needed
    /\ DOMAIN exec.results # {}

\* C30: the eviction of run_one_tick never fails: a call whose task has
\* completed returns without error, every result it deletes was in the
\* results cache when the call began and is a completed task's, and a
\* deleted result is never cached again, so none is deleted twice.
C30_EvictionNeverFails ==
    /\ [](pc = "exec" =>
            /\ (lastCall.op = "run_one_tick" /\ lastCall.task \in exec.completed)
                   => lastCall.error = ""
            /\ lastCall.evicted \subseteq exec.completed \ DOMAIN exec.results)
    /\ [][(pc = "exec" /\ lastCall'.op # "") =>
            /\ lastCall'.evicted \subseteq DOMAIN exec.results
            /\ (exec.completed \ DOMAIN exec.results)
                   \cap DOMAIN exec'.results = {}]_vars

\* one tick deleted the results of both inputs of the task it ran
C30_Witness ==
    /\ pc = "exec"
    /\ TickDone
    /\ Cardinality(lastCall.evicted) = 2
    /\ lastCall.evicted = runnable_dependencies(sequence[lastCall.task])

\* the decodings logged for task t of the given kind
DecodedFor(t, kind) ==
    {i \in DOMAIN decoded : decoded[i].task = t /\ decoded[i].kind = kind}

\* the file references among the positional inputs of task t
FileInputs(t) ==
    {i \in DOMAIN sequence[t].inputs : sequence[t].inputs[i].kind = "file"}

\* the options of the last compute(...) given as a file reference and
\* declared by the constructor with a type that has a loader
LoadableOptions ==
    {i \in DOMAIN lastCompute.call[3] :
        /\ lastCompute.call[3][i][2].kind = "file"
        /\ ConstructorLoadable(lastCompute.call[1], lastCompute.call[3][i][1])}

\* C25: a file reference given as an option is decoded while the Runnable
\* is constructed and at no other time; a file reference given as a
\* positional input is decoded in the tick that runs its task, once, and
\* never at construction, so never for a task that is not needed or has not
\* run.
C25_EagerOptionsLazyInputs ==
    /\ \A i \in DOMAIN decoded :
          /\ decoded[i].kind = "option" => decoded[i].phase = "parse"
          /\ decoded[i].kind = "input" =>
                /\ decoded[i].phase = "tick"
                /\ decoded[i].task \in exec.needed \cap Range(ran)
    /\ (pc # "failed" /\ lastCompute.error = "" /\ LoadableOptions # {}) =>
          \E i \in DecodedFor(Len(sequence), "option") :
              /\ decoded[i].n = Cardinality(LoadableOptions)
              /\ sequence[Len(sequence)].factor = load(fileValue)
    /\ \A t \in DOMAIN sequence :
          /\ Cardinality(DecodedFor(t, "input")) =
                 IF t \in Range(ran) /\ FileInputs(t) # {} THEN 1 ELSE 0
          /\ \A i \in DecodedFor(t, "input") :
                 decoded[i].n = Cardinality(FileInputs(t))

\* the factor of the second task was read from the file when the script
\* ran; the file input of the first task was decoded in its tick, that of
\* the second, which no output needs, never
C25_Witness ==
    /\ pc = "exec"
    /\ Len(sequence) = 2
    /\ lastCompute.call = <<"Multiply", <<FileInput>>, <<<<"factor", FileInput>>>>>>
    /\ outputs = <<1>>
    /\ ran = <<1>>
    /\ lastCall.error = "StopIteration"
    /\ decoded = <<[phase |-> "parse", task |-> 2, kind |-> "option", n |-> 1],
                   [phase |-> "tick", task |-> 1, kind |-> "input", n |-> 1]>>

\* C26: after every tick the scheduler that counts pending needed
\* dependents holds the same results, under the same keys, as the Execution
\* whose run_one_tick scans the dependents index, and has completed the same
\* tasks, for every recipe and every choice of outputs.
C26_RefCountSameCache ==
    pc = "exec" =>
        /\ DOMAIN pool.results = DOMAIN exec.results
        /\ \A t \in DOMAIN exec.results : pool.results[t] = exec.results[t]
        /\ pool.completed = exec.completed
        /\ pool.executed = ran

\* a result with two needed dependents has been evicted by both schedulers
\* on the tick of the second, and an output is kept by both
C26_Witness ==
    /\ pc = "exec"
    /\ TickDone
    /\ \E d \in exec.completed :
          /\ d \notin DOMAIN pool.results
          /\ lastCall.evicted = {d}
          /\ Cardinality(pending_dependents(sequence, exec.needed, d)) = 2
          /\ pool.counts[d] = 0
    /\ DOMAIN pool.results # {}

\* run_and_save on a new Execution of the Recipe: the sequential scheduler
Sequential ==
    run_and_save(sequence, outputs, output_paths,
                 Execution(sequence, outputs), fileValue, disk, <<>>)

\* what Execution.save writes from the results the pool holds
PoolSaved ==
    save([Execution(sequence, outputs) EXCEPT
              !.completed = pool.completed,
              !.results = pool.results,
              !.incomplete = Range(outputs) \ pool.completed],
         outputs, output_paths, disk)

\* the pool has nothing left to start
PoolIdle == pool.error # "" \/ Dispatchable = {}

RunCount(t) == Cardinality({i \in DOMAIN ran : ran[i] = t})

\* the output indices task t is assigned to
IndicesOf(t) == {i \in DOMAIN outputs : outputs[i] = t}

\* C31: a task assigned to several output indices is run at most once; once
\* it has run successfully it is no incomplete output, and the Execution is
\* complete exactly when every task that is an output is completed; a
\* successful save has written the task's one result to the destination of
\* each of its indices.  With zero outputs the Execution is complete from
\* its creation, nothing is needed, no call runs a task, and save succeeds
\* writing nothing.
C31_SharedAndZeroOutputs ==
    pc = "exec" =>
        /\ complete(exec) <=> Range(outputs) \subseteq exec.completed
        /\ \A t \in Range(outputs) :
              /\ RunCount(t) <= 1
              /\ t \in exec.completed =>
                    /\ RunCount(t) = 1
                    /\ t \notin exec.incomplete
                    /\ t \in DOMAIN exec.results
              /\ SaveDone =>
                    \A i \in IndicesOf(t) :
                        /\ i \in DOMAIN lastCall.log
                        /\ lastCall.log[i] = <<output_paths[i], exec.results[t]>>
                        /\ disk[output_paths[i]] = exec.results[t]
        /\ SaveDone => Len(lastCall.log) = Len(outputs)
        /\ outputs = <<>> =>
              /\ complete(exec)
              /\ exec.needed = {}
              /\ ran = <<>>
              /\ lastCall.op = "save" =>
                    (lastCall.error = "" /\ lastCall.log = <<>>)
              /\ lastCall.op = "run_one_tick" => lastCall.task = 0

\* file_outputs[0] and file_outputs[1] are the same task: it ran once, and
\* save wrote its result to both destinations
C31_Witness ==
    /\ pc = "exec"
    /\ SaveDone
    /\ Len(outputs) = 2
    /\ outputs[1] = outputs[2]
    /\ RunCount(outputs[1]) = 1
    /\ Len(lastCall.log) = 2
    /\ output_paths[1] # output_paths[2]
    /\ disk[output_paths[1]] = exec.results[outputs[1]]
    /\ disk[output_paths[2]] = exec.results[outputs[1]]

====
